---- MODULE Spec2Model ----
(***************************************************************************)
(* GiggleGrid photobooth: the booth state machine of app.js together with  *)
(* the presence tracker (detection.js, three detector variants), the       *)
(* countdown timer (countdown.js), the capture step (capture.js), the      *)
(* upload with retry (uploader.js) and the QR result window (qr.js).       *)
(*                                                                         *)
(* The program runs on one JavaScript event loop.  Every action below is   *)
(* one task of that loop (a timer callback, an animation frame, a settled  *)
(* promise) together with the microtask continuations it triggers, which   *)
(* run before any other task.                                              *)
(***************************************************************************)
EXTENDS Integers, FiniteSets, Sequences, TLC

\* ---------------------------------------------------------------- constants

COUNTDOWN_SECONDS == 5
QR_DISPLAY_SECONDS == 15
DETECTION_FRAME_THRESHOLD == 3
\* CONFIG has no DETECTION_MIN_PRESENCE_MS: `CONFIG.DETECTION_MIN_PRESENCE_MS || 0`
DETECTION_MIN_PRESENCE_MS == 0
MAX_RETRIES == 2
\* the value of timerId / resetTimerId when no timer is held (null)
Null == 0

\* ------------------------------------------------------------------- bounds

\* countdown sessions started in one run
MaxSessions == 2
\* detectFrame calls whose result has not been delivered yet
MaxInFlight == 4
\* cap of the consecutive-frame counter
MaxStreak == 4
\* largest value of performance.now() - presenceStartMs that is distinguished
MaxElapsedMs == 1
\* ticks an interval is followed for after its count reached zero
MaxOverrun == 1

IDLE == "IDLE"
COUNTDOWN == "COUNTDOWN"
CAPTURE == "CAPTURE"
UPLOAD == "UPLOAD"
QR == "QR"
State == {IDLE, COUNTDOWN, CAPTURE, UPLOAD, QR}

\* the three detector implementations held in detection.js.  handleResults
\* and resetDetection of the Blazeface and of the face-api.js implementation
\* are the same code after hasFace is computed, so one value stands for both.
Variants == {"mediapipe", "blazeface/faceapi"}

\* reasons with which one upload attempt fails: fetch rejects, or the
\* response is not ok
Reasons == {"Failed to fetch", "Server error"}
RenderErrors == {"QRCode library not available"}

VARIABLES
    \* app.js
    currentState, initPc, promptHidden, flashHidden, flashPending,
    errorMessage, errorToastHidden, toastTimers, awaiting, uploading,
    \* detection.js
    variant, consecutiveFrames, personPresent, presenceStartMs, inflight,
    stale,
    \* countdown.js
    timerId, intervals, countdownHidden, session,
    \* uploader.js / doUpload
    upload,
    \* qr.js
    resetTimerId, timeouts, qrHidden, expiry, expiryText,
    \* history of the run
    cancelledAt, resolved, captured, captureFailed, qrEntered, resetFired,
    posRun, calls, captureCalls, uploadCalls, ticks, ev

prog == <<currentState, initPc, promptHidden, flashHidden, flashPending,
          errorMessage, errorToastHidden, toastTimers, awaiting, uploading,
          variant, consecutiveFrames, personPresent, presenceStartMs, inflight,
          stale,
          timerId, intervals, countdownHidden, session, upload,
          resetTimerId, timeouts, qrHidden, expiry, expiryText,
          cancelledAt, resolved, captured, captureFailed, qrEntered, resetFired,
          posRun, calls, captureCalls, uploadCalls, ticks>>

vars == <<prog, ev>>

\* ------------------------------------------------------------------ helpers

RemoveKey(f, k) == [i \in (DOMAIN f) \ {k} |-> f[i]]
PutKey(f, k, v) == [i \in (DOMAIN f) \cup {k} |-> IF i = k THEN v ELSE f[i]]
NoTimers == [i \in {} |-> 0]
\* one more call counted for session k
Inc(f, k) == PutKey(f, k, (IF k \in DOMAIN f THEN f[k] ELSE 0) + 1)

\* The program state as one record, so that a handler is the composition of
\* the functions it calls.  awaiting holds the countdown sessions whose
\* transitionTo(COUNTDOWN) is suspended at its await, uploading counts the
\* uploadPhoto calls that have not settled.  calls, of the run's history,
\* lists the presence callbacks made by the task being run and starts empty
\* with every task; captureCalls and uploadCalls count the capturePhoto and
\* uploadPhoto calls of each session, ticks the interval callbacks run for
\* each countdown.  expiry holds, for each window whose runExpiryCounter has a
\* timeout pending, its remaining; expiryText is the textContent of the
\* #qr-expiry-number element, <<>> when empty.  Of the inflight frames given
\* to the detector, the first stale were submitted before the latest
\* resetDetection; the detector answers in the order of submission.
S == [currentState |-> currentState, initPc |-> initPc,
      promptHidden |-> promptHidden, flashHidden |-> flashHidden,
      flashPending |-> flashPending, errorMessage |-> errorMessage,
      errorToastHidden |-> errorToastHidden, toastTimers |-> toastTimers,
      variant |-> variant, consecutiveFrames |-> consecutiveFrames,
      personPresent |-> personPresent, presenceStartMs |-> presenceStartMs,
      inflight |-> inflight, timerId |-> timerId, intervals |-> intervals,
      countdownHidden |-> countdownHidden, session |-> session,
      upload |-> upload, resetTimerId |-> resetTimerId, timeouts |-> timeouts,
      qrHidden |-> qrHidden, cancelledAt |-> cancelledAt, resolved |-> resolved,
      captured |-> captured, captureFailed |-> captureFailed,
      qrEntered |-> qrEntered, resetFired |-> resetFired, posRun |-> posRun,
      awaiting |-> awaiting, uploading |-> uploading, calls |-> <<>>,
      captureCalls |-> captureCalls, uploadCalls |-> uploadCalls,
      ticks |-> ticks, expiry |-> expiry, expiryText |-> expiryText,
      stale |-> stale]

Commit(r) ==
    /\ currentState' = r.currentState
    /\ initPc' = r.initPc
    /\ promptHidden' = r.promptHidden
    /\ flashHidden' = r.flashHidden
    /\ flashPending' = r.flashPending
    /\ errorMessage' = r.errorMessage
    /\ errorToastHidden' = r.errorToastHidden
    /\ toastTimers' = r.toastTimers
    /\ variant' = r.variant
    /\ consecutiveFrames' = r.consecutiveFrames
    /\ personPresent' = r.personPresent
    /\ presenceStartMs' = r.presenceStartMs
    /\ inflight' = r.inflight
    /\ stale' = r.stale
    /\ timerId' = r.timerId
    /\ intervals' = r.intervals
    /\ countdownHidden' = r.countdownHidden
    /\ session' = r.session
    /\ upload' = r.upload
    /\ resetTimerId' = r.resetTimerId
    /\ timeouts' = r.timeouts
    /\ qrHidden' = r.qrHidden
    /\ cancelledAt' = r.cancelledAt
    /\ resolved' = r.resolved
    /\ captured' = r.captured
    /\ captureFailed' = r.captureFailed
    /\ qrEntered' = r.qrEntered
    /\ resetFired' = r.resetFired
    /\ posRun' = r.posRun
    /\ awaiting' = r.awaiting
    /\ uploading' = r.uploading
    /\ calls' = r.calls
    /\ captureCalls' = r.captureCalls
    /\ uploadCalls' = r.uploadCalls
    /\ ticks' = r.ticks
    /\ expiry' = r.expiry
    /\ expiryText' = r.expiryText

NoUpload == [pc |-> "none", attempt |-> 0, lastError |-> "none", sid |-> 0]

\* The event processed last: its kind, the state it arrived in, for a
\* detector result the observation, the present flag before it and the
\* notification it raised, for an awaited operation its outcome and the
\* reason of a failure, and the session it belongs to.
Event(type, at, hasFace, wasPresent, raised, outcome, reason, sid) ==
    [type |-> type, at |-> at, hasFace |-> hasFace, wasPresent |-> wasPresent,
     raised |-> raised, outcome |-> outcome, reason |-> reason, sid |-> sid]

\* ------------------------------------------------------------- detection.js

\* posRun, of the run's history, counts the positive observations processed
\* in a row since the last negative observation or reset
resetDetection(s) ==
    [s EXCEPT !.stale = s.inflight,
              !.consecutiveFrames = 0,
              !.personPresent = FALSE,
              !.presenceStartMs = FALSE,
              !.posRun = 0]

\* ------------------------------------------------------------------- qr.js

\* hideQRScreen that hides the element and forgets the pending timer
hideQRScreen_KeepTimer(s) ==
    [s EXCEPT !.qrHidden = TRUE, !.expiryText = <<>>]

hideQRScreen(s) ==
    [s EXCEPT !.qrHidden = TRUE,
              !.timeouts = IF s.resetTimerId # Null
                           THEN RemoveKey(@, s.resetTimerId) ELSE @,
              !.resetTimerId = Null,
              !.expiryText = <<>>]

\* showQRScreen that passes the seconds to setTimeout without the * 1000
showQRScreen_Seconds(s, sid) ==
    [s EXCEPT !.qrHidden = FALSE,
              !.expiryText = <<QR_DISPLAY_SECONDS>>,
              !.expiry = PutKey(@, sid, QR_DISPLAY_SECONDS),
              !.timeouts = PutKey(@, sid, QR_DISPLAY_SECONDS),
              !.resetTimerId = sid,
              !.qrEntered = @ \cup {sid}]

\* runExpiryCounter(el, CONFIG.QR_DISPLAY_SECONDS), then
\* setTimeout(..., QR_DISPLAY_SECONDS * 1000); sid names the new timeout and
\* the new counter
showQRScreen(s, sid) ==
    [s EXCEPT !.qrHidden = FALSE,
              !.expiryText = <<QR_DISPLAY_SECONDS>>,
              !.expiry = PutKey(@, sid, QR_DISPLAY_SECONDS),
              !.timeouts = PutKey(@, sid, QR_DISPLAY_SECONDS * 1000),
              !.resetTimerId = sid,
              !.qrEntered = @ \cup {sid}]

\* tick of runExpiryCounter for the counter of window id: it writes the
\* remaining seconds and re-arms itself while remaining > 0
expiryTick(s, id) ==
    LET remaining == s.expiry[id] - 1 IN
    IF remaining < 0
    THEN [s EXCEPT !.expiry = RemoveKey(@, id)]
    ELSE [s EXCEPT !.expiryText = <<remaining>>,
                   !.expiry = IF remaining > 0
                              THEN PutKey(@, id, remaining)
                              ELSE RemoveKey(@, id)]

\* ------------------------------------------------------------ countdown.js

\* The history of the countdowns before the one being started: of a
\* countdown that is over it keeps that it was cancelled or how it completed,
\* not the tick at which it was cancelled.
Settled(s, f) ==
    [i \in DOMAIN f |-> IF i \in DOMAIN s.intervals \/ i \in s.resolved
                        THEN f[i] ELSE 0]

startCountdown(s) ==
    LET id == s.session + 1 IN
    [s EXCEPT !.session = id,
              !.countdownHidden = FALSE,
              !.intervals = PutKey(@, id, COUNTDOWN_SECONDS),
              !.ticks = PutKey(Settled(s, s.ticks), id, 0),
              !.cancelledAt = Settled(s, s.cancelledAt),
              !.timerId = id]

\* cancelCountdown that only hides the overlay
cancelCountdown_HideOnly(s) ==
    [s EXCEPT !.cancelledAt = IF s.timerId # Null /\ s.timerId \in DOMAIN s.intervals
                              THEN PutKey(@, s.timerId, s.intervals[s.timerId])
                              ELSE @,
              !.countdownHidden = TRUE]

\* cancelCountdown that drops the handle without clearInterval
cancelCountdown_KeepInterval(s) ==
    [s EXCEPT !.cancelledAt = IF s.timerId # Null /\ s.timerId \in DOMAIN s.intervals
                              THEN PutKey(@, s.timerId, s.intervals[s.timerId])
                              ELSE @,
              !.timerId = Null,
              !.countdownHidden = TRUE]

cancelCountdown(s) ==
    [s EXCEPT !.intervals = IF s.timerId # Null
                            THEN RemoveKey(@, s.timerId) ELSE @,
              !.cancelledAt = IF s.timerId # Null /\ s.timerId \in DOMAIN s.intervals
                              THEN PutKey(@, s.timerId, s.intervals[s.timerId])
                              ELSE @,
              !.timerId = Null,
              !.countdownHidden = TRUE]

isCountdownActive(s) == s.timerId # Null

\* ------------------------------------------------------------------ app.js

showError(s, msg) ==
    [s EXCEPT !.errorMessage = msg,
              !.errorToastHidden = FALSE,
              !.toastTimers = @ + 1]

showIdle(s) ==
    resetDetection(hideQRScreen([s EXCEPT !.promptHidden = FALSE]))

\* transitionTo whose COUNTDOWN case leaves the idle prompt on screen
transitionTo_KeepPrompt(s, newState, cap) ==
    LET s1 == [s EXCEPT !.currentState = newState] IN
    CASE newState = IDLE -> showIdle(s1)
      [] newState = COUNTDOWN ->
            LET s2 == startCountdown(s1) IN
            [s2 EXCEPT !.awaiting = @ \cup {s2.timerId}]
      [] newState = CAPTURE ->
            IF cap = "throw"
            THEN [s1 EXCEPT !.captureFailed = @ \cup {s.session},
                            !.captureCalls = Inc(@, s.session)]
            ELSE [s1 EXCEPT !.flashHidden = FALSE, !.flashPending = TRUE,
                            !.captureCalls = Inc(@, s.session)]
      [] OTHER -> s1

\* transitionTo up to its first await.  cap is what capturePhoto does when
\* newState = CAPTURE: "ok" returns the image, "throw" raises, which rejects
\* the promise of the async function and ends it.
transitionTo(s, newState, cap) ==
    LET s1 == [s EXCEPT !.currentState = newState] IN
    CASE newState = IDLE -> showIdle(s1)
      [] newState = COUNTDOWN ->
            LET s2 == startCountdown([s1 EXCEPT !.promptHidden = TRUE]) IN
            [s2 EXCEPT !.awaiting = @ \cup {s2.timerId}]
      [] newState = CAPTURE ->
            IF cap = "throw"
            THEN [s1 EXCEPT !.captureFailed = @ \cup {s.session},
                            !.captureCalls = Inc(@, s.session)]
            ELSE [s1 EXCEPT !.flashHidden = FALSE, !.flashPending = TRUE,
                            !.captureCalls = Inc(@, s.session)]
      [] OTHER -> s1

\* onPersonPresenceChange whose first branch does not test for IDLE
onPersonPresenceChange_AnyStateStart(s, isPresent) ==
    IF isPresent
    THEN transitionTo(s, COUNTDOWN, "ok")
    ELSE IF ~isPresent /\ s.currentState = COUNTDOWN
    THEN transitionTo(resetDetection(cancelCountdown(s)), IDLE, "ok")
    ELSE s

\* onPersonPresenceChange whose second branch does not test for COUNTDOWN
onPersonPresenceChange_AnyStateCancel(s, isPresent) ==
    IF isPresent /\ s.currentState = IDLE
    THEN transitionTo(s, COUNTDOWN, "ok")
    ELSE IF ~isPresent
    THEN transitionTo(resetDetection(cancelCountdown(s)), IDLE, "ok")
    ELSE s

onPersonPresenceChange(s, isPresent) ==
    IF isPresent /\ s.currentState = IDLE
    THEN transitionTo(s, COUNTDOWN, "ok")
    ELSE IF ~isPresent /\ s.currentState = COUNTDOWN
    THEN transitionTo(resetDetection(cancelCountdown(s)), IDLE, "ok")
    ELSE s

\* ------------------------------------------------- detection.js, handleResults

\* shouldBePresent with > for >= in the frame-threshold variants
shouldBePresent_Strict(s, elapsedMs) ==
    IF s.variant = "mediapipe"
    THEN elapsedMs >= DETECTION_MIN_PRESENCE_MS
    ELSE s.consecutiveFrames > DETECTION_FRAME_THRESHOLD

\* shouldBePresent of the three variants, after the streak was updated
shouldBePresent(s, elapsedMs) ==
    IF s.variant = "mediapipe"
    THEN elapsedMs >= DETECTION_MIN_PRESENCE_MS
    ELSE s.consecutiveFrames >= DETECTION_FRAME_THRESHOLD

updateStreak(s, hasFace) ==
    IF hasFace
    THEN [s EXCEPT !.consecutiveFrames = @ + 1,
                   !.presenceStartMs =
                       IF s.variant = "mediapipe" /\ s.consecutiveFrames = 0
                       THEN TRUE ELSE @]
    ELSE [s EXCEPT !.consecutiveFrames = 0, !.presenceStartMs = FALSE]

\* the notification handleResults raises: "none", "true" or "false"
raisedBy(s, hasFace, elapsedMs) ==
    LET s1 == updateStreak(s, hasFace)
        should == shouldBePresent(s1, elapsedMs) IN
    IF should # s.personPresent
    THEN (IF should THEN "true" ELSE "false")
    ELSE "none"

handleResults(s, hasFace, elapsedMs) ==
    LET s1 == updateStreak(s, hasFace)
        should == shouldBePresent(s1, elapsedMs) IN
    IF should # s1.personPresent
    THEN onPersonPresenceChange([s1 EXCEPT !.personPresent = should,
                                           !.calls = Append(@, should)],
                                should)
    ELSE s1

\* ------------------------------------------- app.js, the awaited continuations

\* transitionTo(COUNTDOWN) after `await startCountdown(...)`, resumed for
\* countdown session id
countdownDone(s, id, cap) ==
    IF s.currentState # COUNTDOWN
    THEN s
    ELSE [transitionTo(s, CAPTURE, cap) EXCEPT !.captured = @ \cup {id}]

\* the setInterval callback without clearInterval on the final tick
intervalCallback_NoClear(s, id, cap) ==
    LET remaining == s.intervals[id] - 1
        s0 == [s EXCEPT !.intervals[id] = remaining, !.ticks = Inc(@, id)] IN
    IF remaining <= 0
    THEN LET s1 == [s0 EXCEPT !.countdownHidden = TRUE,
                              !.resolved = @ \cup {id},
                              !.awaiting = @ \ {id}] IN
         IF id \in s.resolved THEN s1 ELSE countdownDone(s1, id, cap)
    ELSE s0

\* the setInterval callback that completes when one second remains
intervalCallback_Early(s, id, cap) ==
    LET remaining == s.intervals[id] - 1
        s0 == [s EXCEPT !.intervals[id] = remaining, !.ticks = Inc(@, id)] IN
    IF remaining <= 1
    THEN LET s1 == [s0 EXCEPT !.intervals = IF s0.timerId # Null
                                            THEN RemoveKey(@, s0.timerId) ELSE @,
                              !.timerId = Null,
                              !.countdownHidden = TRUE,
                              !.resolved = @ \cup {id},
                              !.awaiting = @ \ {id}] IN
         IF id \in s.resolved THEN s1 ELSE countdownDone(s1, id, cap)
    ELSE s0

\* the setInterval callback of countdown session id.  resolve() settles the
\* promise once; the awaiting transitionTo resumes in the same task.
intervalCallback(s, id, cap) ==
    LET remaining == s.intervals[id] - 1
        s0 == [s EXCEPT !.intervals[id] = remaining, !.ticks = Inc(@, id)] IN
    IF remaining <= 0
    THEN LET s1 == [s0 EXCEPT !.intervals = IF s0.timerId # Null
                                            THEN RemoveKey(@, s0.timerId) ELSE @,
                              !.timerId = Null,
                              !.countdownHidden = TRUE,
                              !.resolved = @ \cup {id},
                              !.awaiting = @ \ {id}] IN
         IF id \in s.resolved THEN s1 ELSE countdownDone(s1, id, cap)
    ELSE s0

\* a catch block that shows the error and stays where it is
doUploadCatch_NoIdle(s, msg) ==
    showError(s, msg)

\* doUpload's catch block
doUploadCatch(s, msg) ==
    transitionTo(showError(s, msg), IDLE, "ok")

\* a continuation that calls doUpload a second time for the same image
flashEnd_UploadTwice(s) ==
    LET s1 == [s EXCEPT !.flashHidden = TRUE, !.flashPending = FALSE] IN
    [transitionTo(s1, UPLOAD, "ok") EXCEPT
        !.upload = [pc |-> "fetch", attempt |-> 0, lastError |-> "none",
                    sid |-> s.session],
        !.uploading = @ + 1,
        !.uploadCalls = Inc(Inc(@, s.session), s.session)]

\* the animationend listener of triggerFlash, then transitionTo(CAPTURE)
\* resumes: transitionTo(UPLOAD); doUpload(base64), which starts
\* uploadPhoto's first fetch
flashEnd(s) ==
    LET s1 == [s EXCEPT !.flashHidden = TRUE, !.flashPending = FALSE] IN
    [transitionTo(s1, UPLOAD, "ok") EXCEPT
        !.upload = [pc |-> "fetch", attempt |-> 0, lastError |-> "none",
                    sid |-> s.session],
        !.uploading = @ + 1,
        !.uploadCalls = Inc(@, s.session)]

\* uploadPhoto whose retry test is attempt <= MAX_RETRIES
fetchSettled_OffByOne(s, outcome) ==
    IF outcome = "ok"
    THEN [s EXCEPT !.upload.pc = "render", !.uploading = @ - 1]
    ELSE IF s.upload.attempt <= MAX_RETRIES
    THEN [s EXCEPT !.upload.pc = "delay", !.upload.lastError = outcome]
    ELSE doUploadCatch([s EXCEPT !.upload = NoUpload, !.uploading = @ - 1],
                       <<"Upload failed after", MAX_RETRIES + 1, "attempts", outcome>>)

\* one attempt of uploadPhoto settles: "ok" returns the data and doUpload goes
\* on to renderQR; a failed attempt waits and retries while attempt <
\* MAX_RETRIES, else uploadPhoto throws into doUpload's catch
fetchSettled(s, outcome) ==
    IF outcome = "ok"
    THEN [s EXCEPT !.upload.pc = "render", !.uploading = @ - 1]
    ELSE IF s.upload.attempt < MAX_RETRIES
    THEN [s EXCEPT !.upload.pc = "delay", !.upload.lastError = outcome]
    ELSE doUploadCatch([s EXCEPT !.upload = NoUpload, !.uploading = @ - 1],
                       <<"Upload failed after", MAX_RETRIES + 1, "attempts", outcome>>)

\* delay(RETRY_DELAY_MS * (attempt + 1)) is over: the loop's next attempt
retryDelayDone(s) ==
    [s EXCEPT !.upload.pc = "fetch", !.upload.attempt = @ + 1]

\* renderQR settles: doUpload sets QR and shows the screen, or catches
renderSettled(s, outcome) ==
    IF outcome = "ok"
    THEN showQRScreen([s EXCEPT !.currentState = QR, !.upload = NoUpload],
                      s.upload.sid)
    ELSE doUploadCatch([s EXCEPT !.upload = NoUpload], <<outcome>>)

\* the setTimeout callback of showQRScreen: hideQRScreen(); onReset()
resetTimerFired(s, id) ==
    LET s1 == [s EXCEPT !.timeouts = RemoveKey(@, id),
                        !.resetFired = PutKey(@, id,
                            (IF id \in DOMAIN @ THEN @[id] ELSE 0) + 1)] IN
    transitionTo(hideQRScreen(s1), IDLE, "ok")

\* a click on "Take Another Photo" while the QR screen is shown: showQRScreen
\* documents it as a trigger of onReset but registers no listener, and no
\* other function holds onReset, so the click runs no handler
takeAnotherClick(s) == s

\* the setTimeout callback of showError
toastTimeout(s) ==
    [s EXCEPT !.toastTimers = @ - 1, !.errorToastHidden = TRUE]

\* --------------------------------------------------------------- the actions

Init ==
    /\ currentState = IDLE
    /\ initPc = "start"
    /\ promptHidden = FALSE
    /\ flashHidden = TRUE
    /\ flashPending = FALSE
    /\ errorMessage = <<>>
    /\ errorToastHidden = TRUE
    /\ toastTimers = 0
    /\ variant \in Variants
    /\ consecutiveFrames = 0
    /\ personPresent = FALSE
    /\ presenceStartMs = FALSE
    /\ inflight = 0
    /\ stale = 0
    /\ timerId = Null
    /\ intervals = NoTimers
    /\ countdownHidden = TRUE
    /\ session = 0
    /\ upload = NoUpload
    /\ resetTimerId = Null
    /\ timeouts = NoTimers
    /\ qrHidden = TRUE
    /\ cancelledAt = NoTimers
    /\ resolved = {}
    /\ captured = {}
    /\ captureFailed = {}
    /\ qrEntered = {}
    /\ resetFired = NoTimers
    /\ posRun = 0
    /\ awaiting = {}
    /\ uploading = 0
    /\ calls = <<>>
    /\ captureCalls = NoTimers
    /\ uploadCalls = NoTimers
    /\ ticks = NoTimers
    /\ expiry = NoTimers
    /\ expiryText = <<>>
    /\ ev = Event("load", IDLE, FALSE, FALSE, "none", "none", "none", 0)

\* init(): camera and detector come up and detectionLoop() runs its first
\* iteration, or one of them fails and the loop is never started.
InitApp ==
    /\ initPc = "start"
    /\ \E outcome \in {"ok", "camera", "detection"} :
         /\ Commit(CASE outcome = "ok" ->
                        [S EXCEPT !.initPc = "running", !.inflight = @ + 1]
                     [] outcome = "camera" ->
                        showError([S EXCEPT !.initPc = "failed"],
                                  <<"Camera access denied. Please allow camera permissions.">>)
                     [] OTHER ->
                        showError([S EXCEPT !.initPc = "failed"],
                                  <<"Face detection failed to load.">>))
         /\ ev' = Event("init", currentState, FALSE, FALSE, "none", outcome, "none", 0)

\* one animation frame: detectionLoop submits a frame in IDLE and COUNTDOWN.
\* In the other states the callback only re-arms itself, which changes no
\* variable: those frames are the stuttering steps of the specification.
DetectionLoop ==
    /\ initPc = "running"
    /\ currentState \in {IDLE, COUNTDOWN}
    /\ inflight < MaxInFlight
    /\ Commit([S EXCEPT !.inflight = @ + 1])
    /\ ev' = Event("raf", currentState, FALSE, FALSE, "none", "none", "none", 0)

\* the detector delivers the result of the frame submitted first;
\* ev.outcome tells whether it was submitted before the latest resetDetection
DetectorResult ==
    /\ inflight > 0
    /\ \E hasFace \in BOOLEAN :
       LET s0 == [S EXCEPT !.inflight = @ - 1,
                           !.stale = IF @ > 0 THEN @ - 1 ELSE 0,
                           !.posRun = IF hasFace THEN @ + 1 ELSE 0]
           started == updateStreak(s0, hasFace).presenceStartMs IN
       \E elapsedMs \in (IF started THEN 0..MaxElapsedMs ELSE {0}) :
         LET r == handleResults(s0, hasFace, elapsedMs) IN
         /\ r.consecutiveFrames <= MaxStreak
         /\ r.session <= MaxSessions
         /\ Commit(r)
         /\ ev' = Event("frame", currentState, hasFace, personPresent,
                        raisedBy(s0, hasFace, elapsedMs),
                        IF stale > 0 THEN "stale" ELSE "fresh", "none",
                        r.session)

\* one firing of a live countdown interval.  Its first tick is due a second
\* after the countdown started, later than the last tick of the expiry counter
\* of a window that was reset before.
CountdownTick ==
    \E id \in DOMAIN intervals :
      /\ DOMAIN expiry = {}
      /\ LET final == intervals[id] - 1 <= 0 /\ id \notin resolved
                      /\ currentState = COUNTDOWN IN
         \E cap \in (IF final THEN {"ok", "throw"} ELSE {"none"}) :
           /\ Commit(intervalCallback(S, id, cap))
           /\ ev' = Event("tick", currentState, FALSE, FALSE, "none", cap, "none", id)

\* the flash animation ends
FlashEnd ==
    /\ flashPending
    /\ Commit(flashEnd(S))
    /\ ev' = Event("flash", currentState, FALSE, FALSE, "none", "none", "none",
                   session)

\* the pending fetch of uploadPhoto settles
FetchSettled ==
    /\ upload.pc = "fetch"
    /\ \E outcome \in {"ok"} \cup Reasons :
         /\ Commit(fetchSettled(S, outcome))
         /\ ev' = Event("fetch", currentState, FALSE, personPresent, "none",
                        IF outcome = "ok" THEN "ok"
                        ELSE IF upload.attempt < MAX_RETRIES THEN "retry"
                        ELSE "throw",
                        IF outcome = "ok" THEN "none" ELSE outcome, upload.sid)

\* the wait between two attempts ends
RetryDelayDone ==
    /\ upload.pc = "delay"
    /\ Commit(retryDelayDone(S))
    /\ ev' = Event("delay", currentState, FALSE, FALSE, "none", "none", "none",
                   upload.sid)

\* renderQR settles
RenderSettled ==
    /\ upload.pc = "render"
    /\ \E outcome \in {"ok"} \cup RenderErrors :
         /\ Commit(renderSettled(S, outcome))
         /\ ev' = Event("render", currentState, FALSE, personPresent, "none",
                        IF outcome = "ok" THEN "ok" ELSE "throw",
                        IF outcome = "ok" THEN "none" ELSE outcome, upload.sid)

\* the pending timeout of an expiry counter fires; ev.outcome tells whether
\* the QR screen was hidden at that moment
ExpiryTick ==
    \E id \in DOMAIN expiry :
      /\ Commit(expiryTick(S, id))
      /\ ev' = Event("expiry", currentState, FALSE, personPresent, "none",
                     IF qrHidden THEN "hidden" ELSE "shown", "none", id)

\* a live result-display timeout expires.  It is due QR_DISPLAY_SECONDS
\* seconds after showQRScreen and the k-th tick of the window's expiry counter
\* no earlier than k seconds after it, so all ticks but the last have fired;
\* the last one fires before or after it.
ResetTimerFired ==
    \E id \in DOMAIN timeouts :
      /\ id \in DOMAIN expiry => expiry[id] <= 1
      /\ Commit(resetTimerFired(S, id))
      /\ ev' = Event("reset", currentState, FALSE, personPresent, "none", "none",
                     "none", id)

\* the user clicks "Take Another Photo" on the visible QR screen
TakeAnotherClick ==
    /\ ~qrHidden
    /\ Commit(takeAnotherClick(S))
    /\ ev' = Event("click", currentState, FALSE, personPresent, "none", "none",
                   "none", resetTimerId)

\* an error toast's hide timeout expires
ToastTimeout ==
    /\ toastTimers > 0
    /\ Commit(toastTimeout(S))
    /\ ev' = Event("toast", currentState, FALSE, FALSE, "none", "none", "none", 0)

Next ==
    \/ InitApp
    \/ DetectionLoop
    \/ DetectorResult
    \/ CountdownTick
    \/ FlashEnd
    \/ FetchSettled
    \/ RetryDelayDone
    \/ RenderSettled
    \/ ResetTimerFired
    \/ ExpiryTick
    \/ TakeAnotherClick
    \/ ToastTimeout

Spec == Init /\ [][Next]_vars

\* The browser fires every timer that stays armed, ends the flash animation,
\* settles every fetch and every renderQR, and keeps delivering animation
\* frames and detector results.
Fairness ==
    /\ WF_vars(InitApp)
    /\ WF_vars(DetectionLoop)
    /\ WF_vars(DetectorResult)
    /\ WF_vars(CountdownTick)
    /\ WF_vars(FlashEnd)
    /\ WF_vars(FetchSettled)
    /\ WF_vars(RetryDelayDone)
    /\ WF_vars(RenderSettled)
    /\ WF_vars(ResetTimerFired)
    /\ WF_vars(ExpiryTick)
    /\ WF_vars(ToastTimeout)

FairSpec == Spec /\ Fairness

\* ------------------------------------- countdown.js and qr.js called directly

\* The exported functions of countdown.js and qr.js called in any order by a
\* client of the two modules, with the timers they create firing in between.
\* ev.outcome records whether the timer was active when the call was made and
\* ev.sid the handle it had.  The two modules share no state, so a behaviour
\* exercises one of them.

ApiStartCountdown ==
    /\ session < MaxSessions
    /\ qrEntered = {}
    /\ Commit(startCountdown(S))
    /\ ev' = Event("startCountdown", currentState, FALSE, FALSE, "none",
                   IF isCountdownActive(S) THEN "active" ELSE "inactive",
                   "none", timerId)

ApiCancelCountdown ==
    /\ Commit(cancelCountdown(S))
    /\ ev' = Event("cancelCountdown", currentState, FALSE, FALSE, "none",
                   IF isCountdownActive(S) THEN "active" ELSE "inactive",
                   "none", timerId)

\* each setTimeout returns a fresh handle
ApiShowQRScreen ==
    /\ Cardinality(qrEntered) < MaxSessions
    /\ session = 0
    /\ Commit(showQRScreen(S, Cardinality(qrEntered) + 1))
    /\ ev' = Event("showQRScreen", currentState, FALSE, FALSE, "none",
                   IF resetTimerId # Null THEN "active" ELSE "inactive",
                   "none", resetTimerId)

ApiHideQRScreen ==
    /\ Commit(hideQRScreen(S))
    /\ ev' = Event("hideQRScreen", currentState, FALSE, FALSE, "none",
                   IF resetTimerId # Null THEN "active" ELSE "inactive",
                   "none", resetTimerId)

\* a live interval fires; one that was never cleared keeps firing
ApiCountdownTick ==
    \E id \in DOMAIN intervals :
      /\ intervals[id] > -MaxOverrun
      /\ Commit(intervalCallback(S, id, "none"))
      /\ ev' = Event("tick", currentState, FALSE, FALSE, "none", "none", "none", id)

ApiResetTimerFired ==
    \E id \in DOMAIN timeouts :
      /\ Commit(resetTimerFired(S, id))
      /\ ev' = Event("reset", currentState, FALSE, FALSE, "none", "none", "none", id)

ApiExpiryTick ==
    \E id \in DOMAIN expiry :
      /\ Commit(expiryTick(S, id))
      /\ ev' = Event("expiry", currentState, FALSE, FALSE, "none",
                     IF qrHidden THEN "hidden" ELSE "shown", "none", id)

NextApi ==
    \/ ApiStartCountdown
    \/ ApiCancelCountdown
    \/ ApiShowQRScreen
    \/ ApiHideQRScreen
    \/ ApiCountdownTick
    \/ ApiResetTimerFired
    \/ ApiExpiryTick

SpecApi == Init /\ [][NextApi]_vars

\* ------------------------------------------------------------------ claims

\* the transition table of the booth state machine
Edges == {<<IDLE, COUNTDOWN>>, <<COUNTDOWN, IDLE>>, <<COUNTDOWN, CAPTURE>>,
          <<CAPTURE, UPLOAD>>, <<CAPTURE, IDLE>>, <<UPLOAD, QR>>,
          <<UPLOAD, IDLE>>, <<QR, IDLE>>}

\* the detector variants that debounce by DETECTION_FRAME_THRESHOLD
FrameThresholdVariants == {"blazeface/faceapi"}

\* C1: every change of currentState follows an edge of the transition table
\* IDLE->COUNTDOWN, COUNTDOWN->IDLE, COUNTDOWN->CAPTURE, CAPTURE->UPLOAD,
\* CAPTURE->IDLE, UPLOAD->QR, UPLOAD->IDLE, QR->IDLE; no state is skipped.
C1_TransitionsFollowEdges ==
    [][currentState' # currentState => <<currentState, currentState'>> \in Edges]_vars

\* a run with a cancelled countdown and a later session that went through
\* CAPTURE, UPLOAD and QR back to IDLE
C1_Witness ==
    /\ ev.type = "reset" /\ ev.at = QR /\ currentState = IDLE
    /\ ev.sid \in captured
    /\ DOMAIN cancelledAt # {}

\* C2: a presence notification outside the transition table (any in CAPTURE,
\* UPLOAD or QR, false in IDLE, true in COUNTDOWN) leaves currentState, the
\* countdown timer, the pending flash, the upload in flight and the
\* result-display timer unchanged.
C2_OutsideTableIsNoOp ==
    [][(/\ ev'.type = "frame"
        /\ ev'.raised # "none"
        /\ ~(currentState = IDLE /\ ev'.raised = "true")
        /\ ~(currentState = COUNTDOWN /\ ev'.raised = "false"))
       => UNCHANGED <<currentState, timerId, intervals, flashPending, upload,
                      resetTimerId, timeouts>>]_vars

\* the subject leaves while the upload is in flight
C2_Witness ==
    /\ ev.type = "frame" /\ ev.raised = "false" /\ ev.at = UPLOAD
    /\ currentState = UPLOAD /\ upload.pc = "fetch"

\* C3: in the frame-threshold variants presenceChanged(true) is raised while
\* processing the Nth consecutive positive observation since the last reset
\* or negative observation, N = DETECTION_FRAME_THRESHOLD, and on no other;
\* a negative observation puts the streak back to zero.
C3_RisingEdgeAtThreshold ==
    (variant \in FrameThresholdVariants /\ ev.type = "frame") =>
        /\ (ev.raised = "true") <=> (ev.hasFace /\ posRun = DETECTION_FRAME_THRESHOLD)
        /\ ~ev.hasFace => (consecutiveFrames = 0 /\ posRun = 0)
        /\ posRun < DETECTION_FRAME_THRESHOLD => ~personPresent

\* the Nth positive observation in a row raised presenceChanged(true)
C3_Witness ==
    /\ variant \in FrameThresholdVariants
    /\ ev.type = "frame" /\ ev.raised = "true"
    /\ posRun = DETECTION_FRAME_THRESHOLD
    /\ currentState = COUNTDOWN

\* C4: once present is true, the first negative observation raises
\* presenceChanged(false) while it is processed and sets the streak to 0.
C4_NegativeDropsPresence ==
    (ev.type = "frame" /\ ev.wasPresent /\ ~ev.hasFace) =>
        (ev.raised = "false" /\ consecutiveFrames = 0 /\ ~personPresent)

\* C5: presenceChanged(false) in COUNTDOWN, whatever the remaining seconds:
\* in that one event the interval is cleared, the tracker is reset and
\* currentState becomes IDLE.
C5_LeaveCancelsCountdown ==
    (ev.type = "frame" /\ ev.raised = "false" /\ ev.at = COUNTDOWN) =>
        /\ currentState = IDLE
        /\ timerId = Null
        /\ DOMAIN intervals = {}
        /\ countdownHidden
        /\ consecutiveFrames = 0
        /\ ~personPresent
        /\ ev.sid \in DOMAIN cancelledAt

\* the negative observation arrives in COUNTDOWN at remaining = 3
C5_Witness ==
    /\ ev.type = "frame" /\ ev.raised = "false" /\ ev.at = COUNTDOWN
    /\ ev.sid \in DOMAIN cancelledAt
    /\ cancelledAt[ev.sid] = 3

\* C6: a cancelled countdown session never completes: its promise is never
\* resolved and CAPTURE is never entered on its behalf, also when it was
\* cancelled at remaining = 1 and when a newer session is running.
C6_CancelledNeverCompletes ==
    /\ DOMAIN cancelledAt \cap resolved = {}
    /\ DOMAIN cancelledAt \cap captured = {}
    /\ \A id \in DOMAIN cancelledAt : id \notin DOMAIN intervals

\* a session cancelled at remaining = 1, next to another session that
\* completed
C6_Witness ==
    \E id \in DOMAIN cancelledAt :
        /\ cancelledAt[id] = 1
        /\ \E other \in captured : other # id

\* C7: when capturePhoto throws in CAPTURE the error is surfaced and
\* currentState becomes IDLE; the machine is not left in CAPTURE.
C7_CaptureFailureReturnsToIdle ==
    (ev.type = "tick" /\ ev.outcome = "throw") =>
        (currentState = IDLE /\ ~errorToastHidden)

\* C8: uploadPhoto fails in UPLOAD: showError gets the failure reason,
\* currentState becomes IDLE, QR is not entered and no result-display timer
\* is started.
C8_UploadFailureReturnsToIdle ==
    (ev.type = "fetch" /\ ev.outcome = "throw") =>
        /\ ev.at = UPLOAD
        /\ currentState = IDLE
        /\ errorMessage = <<"Upload failed after", MAX_RETRIES + 1, "attempts", ev.reason>>
        /\ ~errorToastHidden
        /\ upload.pc = "none"
        /\ ev.sid \notin qrEntered
        /\ resetTimerId = Null
        /\ DOMAIN timeouts = {}
        /\ qrHidden

\* the third attempt of the upload failed
C8_Witness ==
    /\ ev.type = "fetch" /\ ev.outcome = "throw" /\ ev.reason = "Server error"
    /\ currentState = IDLE

\* C9 as stated: once uploadPhoto has returned successfully in UPLOAD, the
\* next state is QR with the result-display timer started.
C9_SuccessAlwaysShowsQR ==
    (ev.type = "render") =>
        /\ currentState = QR
        /\ resetTimerId # Null
        /\ resetTimerId \in DOMAIN timeouts

\* C9 amended: once uploadPhoto has returned successfully in UPLOAD, if
\* renderQR completes the next state is QR and the result-display timer is
\* started with QR_DISPLAY_SECONDS; if renderQR fails the error is shown
\* and the machine returns to IDLE without entering QR.
C9_SuccessShowsQRUnlessRenderFails ==
    (ev.type = "render") =>
        /\ ev.at = UPLOAD
        /\ ev.outcome = "ok" =>
             /\ currentState = QR
             /\ ~qrHidden
             /\ ev.sid \in qrEntered
             /\ resetTimerId = ev.sid
             /\ DOMAIN timeouts = {ev.sid}
             /\ timeouts[ev.sid] = QR_DISPLAY_SECONDS * 1000
        /\ ev.outcome = "throw" =>
             /\ currentState = IDLE
             /\ errorMessage = <<ev.reason>>
             /\ ~errorToastHidden
             /\ ev.sid \notin qrEntered
             /\ DOMAIN timeouts = {}

\* the upload succeeded, the QR code was rendered and the window is open
C9_Witness ==
    /\ ev.type = "render" /\ ev.outcome = "ok"
    /\ currentState = QR
    /\ resetTimerId \in DOMAIN timeouts

\* C10: the reset callback of a QR session fires exactly once, at expiry,
\* moving QR to IDLE; the session stays in QR until then, and after the
\* callback no reset timer is pending.
C10_ResetFiresOnce ==
    /\ \A sid \in DOMAIN resetFired : resetFired[sid] = 1 /\ sid \in qrEntered
    /\ \A sid \in qrEntered :
          sid \notin DOMAIN resetFired =>
              (currentState = QR /\ resetTimerId = sid /\ sid \in DOMAIN timeouts)
    /\ ev.type = "reset" =>
          (ev.at = QR /\ currentState = IDLE /\ qrHidden)
    /\ currentState # QR => (resetTimerId = Null /\ DOMAIN timeouts = {})

\* the result-display timer of a session expired
C10_Witness ==
    /\ ev.type = "reset" /\ currentState = IDLE
    /\ ev.sid \in DOMAIN resetFired

\* C11: an early cancel ("take another") during QR emits reset at once and
\* exactly once, returning the machine to IDLE, and leaves no expiry timer
\* behind that could emit a second reset.
C11_EarlyCancelResetsOnce ==
    (ev.type = "click" /\ ev.at = QR) =>
        /\ currentState = IDLE
        /\ ev.sid \in DOMAIN resetFired
        /\ resetFired[ev.sid] = 1
        /\ resetTimerId = Null
        /\ DOMAIN timeouts = {}

\* C12: every entry into IDLE leaves the tracker with streak = 0 and
\* present = false, so that COUNTDOWN is re-entered only by an observation
\* that completes a full threshold of positive observations processed since
\* that entry.
C12_IdleEntryNeedsFreshDebounce ==
    /\ (currentState = IDLE /\ ev.at # IDLE) =>
          (consecutiveFrames = 0 /\ ~personPresent /\ posRun = 0)
    /\ (ev.type = "frame" /\ ev.at = IDLE /\ currentState = COUNTDOWN /\ ev.sid > 1) =>
          (ev.hasFace /\ posRun >= DETECTION_FRAME_THRESHOLD)

\* C13: a countdown timer is active only in COUNTDOWN, a reset timer is
\* pending only in QR, the two are never both active, there is at most one
\* countdown interval and at most one reset timer, and at most one uploadPhoto
\* call is in flight, which implies UPLOAD.
C13_OneTimerOneUpload ==
    /\ (isCountdownActive(S) \/ DOMAIN intervals # {}) => currentState = COUNTDOWN
    /\ (resetTimerId # Null \/ DOMAIN timeouts # {}) => currentState = QR
    /\ ~((isCountdownActive(S) \/ DOMAIN intervals # {})
         /\ (resetTimerId # Null \/ DOMAIN timeouts # {}))
    /\ Cardinality(DOMAIN intervals) <= 1
    /\ Cardinality(DOMAIN timeouts) <= 1
    /\ uploading <= 1
    /\ uploading > 0 => currentState = UPLOAD
    /\ isCountdownActive(S) => DOMAIN intervals = {timerId}
    /\ resetTimerId # Null => DOMAIN timeouts = {resetTimerId}

\* the second session shows its QR code with its own reset timer as the only
\* timer, the first session's timers being gone
C13_Witness ==
    /\ currentState = QR
    /\ resetTimerId = 2
    /\ DOMAIN timeouts = {2}
    /\ DOMAIN intervals = {}
    /\ uploading = 0

\* C14: startCountdown called while a countdown is active, and showQRScreen
\* called while a reset timer is pending, are rejected and leave the running
\* timer as it was: no second timer is started and the first is not restarted.
C14_StartWhileActiveIsRejected ==
    [][/\ (ev'.type = "startCountdown" /\ isCountdownActive(S)) =>
              UNCHANGED <<timerId, intervals>>
       /\ (ev'.type = "showQRScreen" /\ resetTimerId # Null) =>
              UNCHANGED <<resetTimerId, timeouts>>]_vars

\* C15: resetDetection clears the streak and forces present = false, and
\* invokes the presence-change callback with false exactly once if present
\* was true before the call and not at all if it was already false.  The
\* calls are those of showIdle on entering IDLE from UPLOAD or QR and those
\* of the cancel path, where handleResults has notified false already.
C15_ResetEmitsFallingEdge ==
    /\ (ev.type \in {"reset", "fetch", "render"} /\ ev.at # IDLE /\ currentState = IDLE) =>
          /\ consecutiveFrames = 0
          /\ ~personPresent
          /\ calls = IF ev.wasPresent THEN <<FALSE>> ELSE <<>>
    /\ (ev.type = "frame" /\ ev.at = COUNTDOWN /\ currentState = IDLE) =>
          /\ consecutiveFrames = 0
          /\ ~personPresent
          /\ calls = <<FALSE>>

\* C16: cancelCountdown on an active countdown settles the promise of
\* startCountdown, so that the awaiting transitionTo resumes and ends without
\* advancing to CAPTURE, and leaves no dangling timer; no cancelled session
\* keeps a pending awaiter.
C16_CancelSettlesAwaiter ==
    /\ \A id \in DOMAIN cancelledAt : id \notin awaiting
    /\ (ev.type = "frame" /\ ev.at = COUNTDOWN /\ currentState = IDLE) =>
          /\ timerId = Null
          /\ DOMAIN intervals = {}
          /\ ev.sid \notin captured

\* C17: the machine has no stuck state: when timers fire, the flash ends and
\* capture and upload terminate, currentState becomes IDLE again and again,
\* whatever failed in between.
C17_AlwaysBackToIdle == []<>(currentState = IDLE)

\* C18: from IDLE with a reset tracker, the observation that completes
\* DETECTION_FRAME_THRESHOLD positive ones in a row leaves the machine in
\* COUNTDOWN; the tick that ends a countdown of COUNTDOWN_SECONDS ticks that
\* was not cancelled takes it to CAPTURE and from there it proceeds to UPLOAD,
\* with exactly one upload started and without IDLE in between.
C18_StepsOfFullSession ==
    /\ (ev.type = "frame" /\ ev.at = IDLE /\ ev.hasFace
        /\ posRun >= DETECTION_FRAME_THRESHOLD) =>
          /\ currentState = COUNTDOWN
          /\ intervals = PutKey(NoTimers, session, COUNTDOWN_SECONDS)
    /\ (ev.type = "tick" /\ ev.at = COUNTDOWN /\ ev.sid \in resolved) =>
          currentState = CAPTURE
    /\ ev.type = "flash" =>
          /\ ev.at = CAPTURE
          /\ currentState = UPLOAD
          /\ uploadCalls[ev.sid] = 1
          /\ upload = [pc |-> "fetch", attempt |-> 0, lastError |-> "none",
                       sid |-> ev.sid]
    /\ currentState = UPLOAD => (session \in captured /\ session \in resolved)

C18_FullSessionReachesUpload ==
    /\ []C18_StepsOfFullSession
    /\ (currentState = CAPTURE) ~> (currentState = UPLOAD)

\* C19: one call of uploadPhoto makes at most MAX_RETRIES + 1 attempts and
\* has one terminal outcome: it returns at the first attempt that succeeds
\* and attempts nothing more; a failed attempt, network error or non-ok
\* response alike, is followed by a wait and another attempt while fewer than
\* MAX_RETRIES + 1 were made; the failure of the last one throws at once,
\* without a wait, with that attempt's reason in the message.
C19_UploadOneOutcome ==
    [][/\ upload'.attempt <= MAX_RETRIES
       /\ (upload.pc \in {"fetch", "delay"}) <=> (uploading = 1)
       /\ (ev'.type = "fetch" /\ ev'.reason = "none") =>
             /\ upload.pc = "fetch"
             /\ upload' = [upload EXCEPT !.pc = "render"]
             /\ uploading' = 0
             /\ currentState' = UPLOAD
       /\ (ev'.type = "fetch" /\ ev'.reason \in Reasons /\ upload.attempt < MAX_RETRIES) =>
             /\ upload' = [upload EXCEPT !.pc = "delay", !.lastError = ev'.reason]
             /\ uploading' = 1
             /\ errorMessage' = errorMessage
             /\ currentState' = UPLOAD
       /\ (ev'.type = "fetch" /\ ev'.reason \in Reasons /\ upload.attempt >= MAX_RETRIES) =>
             /\ upload.attempt = MAX_RETRIES
             /\ upload' = NoUpload
             /\ uploading' = 0
             /\ errorMessage' = <<"Upload failed after", 3, "attempts", ev'.reason>>
       /\ ev'.type = "delay" =>
             /\ upload.pc = "delay"
             /\ upload' = [upload EXCEPT !.pc = "fetch", !.attempt = upload.attempt + 1]
             /\ uploading' = 1
       /\ (upload'.pc = "fetch" /\ upload.pc # "fetch") =>
             ev'.type \in {"flash", "delay"}]_vars

\* the third attempt succeeds after two failed ones
C19_Witness ==
    /\ ev.type = "fetch"
    /\ ev.outcome = "ok"
    /\ upload.pc = "render"
    /\ upload.attempt = MAX_RETRIES
    /\ upload.lastError \in Reasons
    /\ uploading = 0

\* C20: in each session capturePhoto is invoked at most once, on the
\* COUNTDOWN->CAPTURE transition, and uploadPhoto at most once, for an image
\* that was captured; neither is invoked in a session whose countdown was
\* cancelled.
C20_CaptureAndUploadAtMostOnce ==
    /\ \A sid \in DOMAIN captureCalls :
          /\ captureCalls[sid] = 1
          /\ sid \in resolved
          /\ sid \in captured
          /\ sid \notin DOMAIN cancelledAt
    /\ \A sid \in DOMAIN uploadCalls :
          /\ uploadCalls[sid] = 1
          /\ sid \in DOMAIN captureCalls
          /\ sid \notin captureFailed
          /\ sid \notin DOMAIN cancelledAt
    /\ \A sid \in DOMAIN cancelledAt :
          sid \notin DOMAIN captureCalls /\ sid \notin DOMAIN uploadCalls

\* the first session was cancelled; the second captured once and uploaded
\* once, and its upload has ended
C20_Witness ==
    /\ 1 \in DOMAIN cancelledAt
    /\ 2 \in DOMAIN captureCalls
    /\ 2 \in DOMAIN uploadCalls
    /\ captureCalls[2] = 1
    /\ uploadCalls[2] = 1
    /\ upload = NoUpload
    /\ currentState = IDLE

\* C21: a countdown starts at COUNTDOWN_SECONDS, its remaining value goes
\* down by exactly 1 with each tick, and unless cancelled it completes at its
\* COUNTDOWN_SECONDS-th tick and not before; on completing its interval is
\* cleared, so that it never ticks again, and completion is signalled once.
C21_CompletesAtLastTick ==
    [][/\ session' # session =>
             /\ ticks'[session'] = 0
             /\ intervals'[session'] = COUNTDOWN_SECONDS
       /\ ev'.type = "tick" =>
             /\ ev'.sid \in DOMAIN intervals
             /\ ev'.sid \notin resolved
             /\ ticks'[ev'.sid] = ticks[ev'.sid] + 1
             /\ IF ticks'[ev'.sid] = COUNTDOWN_SECONDS
                THEN /\ resolved' = resolved \cup {ev'.sid}
                     /\ DOMAIN intervals' = {}
                     /\ timerId' = Null
                     /\ ev'.sid \notin awaiting'
                ELSE /\ ticks'[ev'.sid] < COUNTDOWN_SECONDS
                     /\ resolved' = resolved
                     /\ intervals' = [intervals EXCEPT ![ev'.sid] = @ - 1]
                     /\ intervals'[ev'.sid] = COUNTDOWN_SECONDS - ticks'[ev'.sid]
                     /\ currentState' = currentState
       /\ ev'.type # "tick" =>
             /\ resolved' = resolved
             /\ \A id \in resolved \cup DOMAIN intervals : ticks'[id] = ticks[id]
       /\ \A id \in resolved :
             ticks[id] = COUNTDOWN_SECONDS /\ id \notin DOMAIN intervals]_vars

\* the fifth tick of an uncancelled countdown has just completed it
C21_Witness ==
    /\ ev.type = "tick"
    /\ ev.sid \in resolved
    /\ ticks[ev.sid] = COUNTDOWN_SECONDS
    /\ DOMAIN intervals = {}
    /\ currentState = CAPTURE

\* C22: once hideQRScreen has run, the hidden window is silent: its reset
\* callback does not fire and no tick of its expiry counter writes the
\* remaining-seconds display; the only expiry ticks are those of the window
\* being shown.
C22_HiddenWindowIsSilent ==
    /\ ev.type = "expiry" =>
          /\ ev.outcome = "shown"
          /\ ev.sid = resetTimerId
    /\ qrHidden =>
          /\ DOMAIN timeouts = {}
          /\ DOMAIN expiry = {}
          /\ expiryText = <<>>

\* C23: in each of the three detector variants, an observation with no face
\* never raises presenceChanged(true), never leaves present true, and so
\* never takes the machine from IDLE to COUNTDOWN.
C23_NoFaceNeverRaisesPresence ==
    (ev.type = "frame" /\ ~ev.hasFace) =>
        /\ ev.raised # "true"
        /\ ~personPresent
        /\ ~(ev.at = IDLE /\ currentState = COUNTDOWN)

\* C24: the idle prompt is visible only in IDLE, the countdown overlay only
\* in COUNTDOWN and the QR screen only in QR, so at most one of the three is
\* visible.
C24_OverlaysMatchState ==
    /\ ~promptHidden => currentState = IDLE
    /\ ~countdownHidden => currentState = COUNTDOWN
    /\ ~qrHidden => currentState = QR
    /\ Cardinality({o \in {"prompt", "countdown", "qr"} :
                      \/ o = "prompt" /\ ~promptHidden
                      \/ o = "countdown" /\ ~countdownHidden
                      \/ o = "qr" /\ ~qrHidden}) <= 1

\* the second session shows its QR screen, prompt and countdown overlay hidden,
\* after the first one was cancelled from the countdown overlay
C24_Witness ==
    /\ currentState = QR
    /\ ~qrHidden
    /\ promptHidden
    /\ countdownHidden
    /\ resetTimerId = 2
    /\ 1 \in DOMAIN cancelledAt

\* C25: the result of a frame submitted before the most recent resetDetection
\* is not applied to the new presence window: it does not increment the
\* streak, does not set present and does not raise presenceChanged(true).
C25_StaleResultsIgnored ==
    (ev.type = "frame" /\ ev.outcome = "stale") =>
        /\ consecutiveFrames = 0
        /\ ~personPresent
        /\ ev.raised # "true"
        /\ currentState = ev.at

====
